---- MODULE Spec2Model ----
(***************************************************************************)
(* green-basic: the line scanner (gbasic/scanner.py), the opcode executor  *)
(* (gbasic/operation.py) and the virtual machine (gbasic/machine.py).      *)
(*                                                                         *)
(* A source text is a sequence of one-character strings.  Cursor positions *)
(* are Python's 0-based indices: Ch(text, i) is text[i], and "" past the   *)
(* end of the text.                                                        *)
(*                                                                         *)
(* Every value that can appear in a compiled line or on the stack is a     *)
(* record [t, n, s]:                                                       *)
(*   t = "int"    a Python int, n its value                                *)
(*   t = "float"  a Python float; s is the text it was parsed from, or "?" *)
(*                for a float computed at run time (floats are abstract)   *)
(*   t = "str"    a Python str, s its value                                *)
(*   t = "numvar", "strvar"   the tuple (Element.numvar, s), ...           *)
(*   t = "op"     the tuple (Element.op, Op.s)                             *)
(***************************************************************************)
EXTENDS Integers, Sequences, FiniteSets, TLC

\* ------------------------------------------------------------------------
\* Characters
\* ------------------------------------------------------------------------
Digits == {"0", "1", "2", "3", "4", "5", "6", "7", "8", "9"}

DigitVal == [c \in Digits |->
               CASE c = "0" -> 0 [] c = "1" -> 1 [] c = "2" -> 2 [] c = "3" -> 3
                 [] c = "4" -> 4 [] c = "5" -> 5 [] c = "6" -> 6 [] c = "7" -> 7
                 [] c = "8" -> 8 [] c = "9" -> 9]

Upper == {"A", "B", "C", "D", "E", "F", "G", "H", "I", "J", "K", "L", "M",
          "N", "O", "P", "Q", "R", "S", "T", "U", "V", "W", "X", "Y", "Z"}

\* str.isspace() on the characters the texts are made of
IsSpace(c) == c \in {" "}

Ch(text, i) == IF i >= 0 /\ i < Len(text) THEN text[i + 1] ELSE ""

Min(S) == CHOOSE m \in S : \A o \in S : m <= o

\* text[a:b] as a sequence of characters
Slice(text, a, b) ==
    IF a >= b \/ a >= Len(text) THEN <<>>
    ELSE [i \in 1..((IF b < Len(text) THEN b ELSE Len(text)) - a) |-> text[a + i]]

\* "".join(chars): the Python str made of the characters
RECURSIVE StrOf(_)
StrOf(chars) == IF chars = <<>> THEN "" ELSE Head(chars) \o StrOf(Tail(chars))

\* text.startswith(chars, idx)
StartsWith(text, chars, idx) ==
    /\ idx + Len(chars) <= Len(text)
    /\ \A i \in 1..Len(chars) : text[idx + i] = chars[i]

\* the length of the longest run of characters of set S starting at idx
RunLen(text, S, idx) ==
    IF idx >= Len(text) THEN 0
    ELSE Min({j \in idx..Len(text) : j = Len(text) \/ Ch(text, j) \notin S}) - idx

\* int(digits): the value of the digit run text[idx : idx + len]
RECURSIVE IntOf(_, _, _)
IntOf(text, idx, len) ==
    IF len = 0 THEN 0
    ELSE 10 * IntOf(text, idx, len - 1) + DigitVal[Ch(text, idx + len - 1)]

\* ------------------------------------------------------------------------
\* Elements and scan results
\* ------------------------------------------------------------------------
IntEl(v)    == [t |-> "int", n |-> v, s |-> ""]
FloatEl(r)  == [t |-> "float", n |-> 0, s |-> r]
StrEl(v)    == [t |-> "str", n |-> 0, s |-> v]
NumVar(nm)  == [t |-> "numvar", n |-> 0, s |-> nm]
StrVar(nm)  == [t |-> "strvar", n |-> 0, s |-> nm]
OpEl(o)     == [t |-> "op", n |-> 0, s |-> o]
KwEl(k)     == [t |-> "kw", n |-> 0, s |-> k]

\* Op = Enum('Op', 'ADD SUB MUL DIV POW NEG GOTO LETNUM LETSTR PRINT PRN END')
Op == {"ADD", "SUB", "MUL", "DIV", "POW", "NEG", "GOTO", "LETNUM", "LETSTR",
       "PRINT", "PRN", "END"}

MathOps == [c \in {"+", "-", "*", "/", "^"} |->
              CASE c = "+" -> "ADD" [] c = "-" -> "SUB" [] c = "*" -> "MUL"
                [] c = "/" -> "DIV" [] c = "^" -> "POW"]

keywords == {"LET", "READ", "DATA", "RESTORE", "PRINT", "GOTO", "IF", "ON",
             "FOR", "DIM", "END", "RANDOM", "GOSUB", "RETURN", "DEF", "INPUT",
             "REM", "STOP"}

\* the characters of each keyword
KeywordChars(kw) ==
    CASE kw = "LET" -> <<"L", "E", "T">>
      [] kw = "READ" -> <<"R", "E", "A", "D">>
      [] kw = "DATA" -> <<"D", "A", "T", "A">>
      [] kw = "RESTORE" -> <<"R", "E", "S", "T", "O", "R", "E">>
      [] kw = "PRINT" -> <<"P", "R", "I", "N", "T">>
      [] kw = "GOTO" -> <<"G", "O", "T", "O">>
      [] kw = "IF" -> <<"I", "F">>
      [] kw = "ON" -> <<"O", "N">>
      [] kw = "FOR" -> <<"F", "O", "R">>
      [] kw = "DIM" -> <<"D", "I", "M">>
      [] kw = "END" -> <<"E", "N", "D">>
      [] kw = "RANDOM" -> <<"R", "A", "N", "D", "O", "M">>
      [] kw = "GOSUB" -> <<"G", "O", "S", "U", "B">>
      [] kw = "RETURN" -> <<"R", "E", "T", "U", "R", "N">>
      [] kw = "DEF" -> <<"D", "E", "F">>
      [] kw = "INPUT" -> <<"I", "N", "P", "U", "T">>
      [] kw = "REM" -> <<"R", "E", "M">>
      [] kw = "STOP" -> <<"S", "T", "O", "P">>

\* a scan function returns (value, idx) or raises GBasicSyntaxError(idx, msg)
Ok(out, idx)  == [ok |-> TRUE, out |-> out, idx |-> idx, msg |-> ""]
Err(idx, msg) == [ok |-> FALSE, out |-> <<>>, idx |-> idx, msg |-> msg]

\* Let(e, F) is F(e) with e evaluated once: LET v == e IN F(v)
Let(e, F(_)) == CHOOSE y \in {F(v) : v \in {e}} : TRUE

\* ------------------------------------------------------------------------
\* Lexical primitives
\* ------------------------------------------------------------------------
\* scan_ws: the index after the whitespace at cur_idx
scan_ws(text, cur_idx) ==
    IF \A i \in cur_idx..(Len(text) - 1) : IsSpace(Ch(text, i)) THEN Len(text)
    ELSE Min({i \in cur_idx..(Len(text) - 1) : ~IsSpace(Ch(text, i))})

\* check_lineno: the length of the match of \d+ at idx (0: no match)
check_lineno(text, idx) == RunLen(text, Digits, idx)

scan_lineno(text, idx0) ==
    Let(scan_ws(text, idx0), LAMBDA idx :
    Let(check_lineno(text, idx), LAMBDA len :
        IF len > 0 THEN Ok(<<IntEl(IntOf(text, idx, len))>>, idx + len)
        ELSE Err(idx, "Line number expected")))

scan_keyword(text, idx0) ==
    Let(scan_ws(text, idx0), LAMBDA idx :
    Let({kw \in keywords : StartsWith(text, KeywordChars(kw), idx)},
        LAMBDA found :
        IF found # {}
        THEN Let(CHOOSE kw \in found : TRUE, LAMBDA keyword :
                 Ok(<<KwEl(keyword)>>, idx + Len(KeywordChars(keyword))))
        ELSE Err(idx, "Keyword expected")))

\* check_variable: the length of the match of [A-Z][A-Z0-9]?\$? (0: no match)
check_variable(text, idx) ==
    IF Ch(text, idx) \notin Upper THEN 0
    ELSE Let(IF Ch(text, idx + 1) \in Upper \cup Digits THEN 2 ELSE 1,
             LAMBDA a : IF Ch(text, idx + a) = "$" THEN a + 1 ELSE a)

scan_variable(text, idx0) ==
    Let(scan_ws(text, idx0), LAMBDA idx :
    Let(check_variable(text, idx), LAMBDA len :
        IF len > 0
        THEN Let(StrOf(Slice(text, idx, idx + len)), LAMBDA var :
                 IF Ch(text, idx + len - 1) = "$"
                 THEN Ok(<<StrVar(var)>>, idx + len)
                 ELSE Ok(<<NumVar(var)>>, idx + len))
        ELSE Err(idx, "Variable name expected")))

\* check_number: the match of
\*   (?i)([+\-]?(?:[1-9]\d*|0))(?:\.([0-9]*))?(?:E([+-]?\d+))?
\* is the whole part text[idx : wend], the decimal digits text[wend + 1 : dend]
\* when a "." follows, and the exponent text[dend + 1 : eend] when an "E" and
\* digits follow; num is the string the function builds from the groups
check_number(text, idx) ==
    Let(IF Ch(text, idx) \in {"+", "-"} THEN idx + 1 ELSE idx, LAMBDA d0 :
    Let(IF Ch(text, d0) = "0" THEN d0 + 1
        ELSE d0 + RunLen(text, Digits, d0), LAMBDA wend :
    Let(IF Ch(text, wend) = "." THEN wend + 1 + RunLen(text, Digits, wend + 1)
        ELSE wend, LAMBDA dend :
    Let(IF Ch(text, dend) \in {"E", "e"}
        THEN Let(IF Ch(text, dend + 1) \in {"+", "-"} THEN dend + 2
                 ELSE dend + 1,
                 LAMBDA e0 : IF RunLen(text, Digits, e0) > 0
                             THEN e0 + RunLen(text, Digits, e0) ELSE dend)
        ELSE dend, LAMBDA eend :
        [match |-> wend > d0,
         num |-> IF eend > dend
                 THEN Slice(text, idx, wend) \o <<".">>
                          \o (IF dend > wend + 1
                              THEN Slice(text, wend + 1, dend) ELSE <<"0">>)
                          \o <<"e">> \o Slice(text, dend + 1, eend)
                 ELSE IF dend > wend + 1
                 THEN Slice(text, idx, wend) \o <<".">>
                          \o Slice(text, wend + 1, dend)
                 ELSE Slice(text, idx, wend),
         isfloat |-> eend > dend \/ dend > wend + 1,
         int |-> (IF Ch(text, idx) = "-" THEN -1 ELSE 1)
                     * IntOf(text, d0, wend - d0)]))))

scan_number(text, idx0) ==
    Let(scan_ws(text, idx0), LAMBDA idx :
    Let(check_number(text, idx), LAMBDA m :
        IF m.match
        THEN IF m.isfloat THEN Ok(<<FloatEl(StrOf(m.num))>>, idx + Len(m.num))
             ELSE Ok(<<IntEl(m.int)>>, idx + Len(m.num))
        ELSE Err(idx, "Number expected")))

\* check_string: the length of the match of "(?:[^"\\]|\\.)*" (0: no match)
RECURSIVE StringEnd(_, _)
StringEnd(text, i) ==
    IF i >= Len(text) THEN -1
    ELSE IF Ch(text, i) = "\"" THEN i + 1
    ELSE IF Ch(text, i) = "\\"
         THEN IF i + 1 < Len(text) THEN StringEnd(text, i + 2) ELSE -1
    ELSE StringEnd(text, i + 1)

check_string(text, idx) ==
    IF Ch(text, idx) # "\"" THEN 0
    ELSE Let(StringEnd(text, idx + 1),
             LAMBDA e : IF e < 0 THEN 0 ELSE e - idx)

\* str.replace(<<a, b>>, <<c>>) for a two-character pattern
RECURSIVE Replace2(_, _, _, _)
Replace2(chars, a, b, c) ==
    IF Len(chars) < 2 THEN chars
    ELSE IF chars[1] = a /\ chars[2] = b
         THEN <<c>> \o Replace2(SubSeq(chars, 3, Len(chars)), a, b, c)
    ELSE <<chars[1]>> \o Replace2(Tail(chars), a, b, c)

unquote_string(quoted_str) ==
    Replace2(Replace2(SubSeq(quoted_str, 2, Len(quoted_str) - 1),
                      "\\", "\"", "\""),
             "\\", "\\", "\\")

scan_string(text, cur_idx) ==
    Let(scan_ws(text, cur_idx), LAMBDA idx :
    Let(check_string(text, idx), LAMBDA len :
        IF len > 0
        THEN Ok(<<StrEl(StrOf(unquote_string(Slice(text, idx, idx + len))))>>,
                idx + len)
        ELSE Err(idx, "String expected")))

\* check_chars(chars)(text, idx) for a one-character chars, ws_ok = True
check_chars(chars, text, idx) == Ch(text, scan_ws(text, idx)) = chars

\* scan_chars(chars)(text, idx): idx + len(ws + chars)
scan_chars(chars, text, idx) ==
    Let(scan_ws(text, idx), LAMBDA at :
        IF Ch(text, at) = chars THEN Ok(<<StrEl(chars)>>, at + 1)
        ELSE Err(idx, "Characters '" \o chars \o "' expected"))

\* r if the scan r raised, else K(r)
Then(r, K(_)) == Let(r, LAMBDA v : IF v.ok THEN K(v) ELSE v)

\* ------------------------------------------------------------------------
\* Expression compiler
\*   expression = (+|-)? term ((+|-) term)*
\*   term = factor (("/"|"*") factor)*
\*   factor = primary (^ primary)*
\*   primary = variable | constant | "(" expression ")"
\* ------------------------------------------------------------------------
RECURSIVE scan_primary(_, _), scan_factor(_, _), scan_term(_, _),
          scan_expression(_, _), factor_loop(_, _, _), term_loop(_, _, _),
          expression_loop(_, _, _)

scan_primary(text, cur_idx0) ==
    Let(scan_ws(text, cur_idx0), LAMBDA cur_idx :
    Let(scan_ws(text, cur_idx), LAMBDA idx :
        IF check_number(text, idx).match THEN scan_number(text, idx)
        ELSE IF check_variable(text, idx) > 0 THEN scan_variable(text, idx)
        ELSE IF check_chars("(", text, idx)
        THEN Then(scan_chars("(", text, idx), LAMBDA p :
             Then(scan_expression(text, p.idx), LAMBDA primary :
             Then(scan_chars(")", text, primary.idx), LAMBDA c :
                  Ok(primary.out, c.idx))))
        ELSE Err(cur_idx, "Number, variable, or expression expected")))

\* while check_exp(text, idx): ...
factor_loop(text, idx, out) ==
    IF ~check_chars("^", text, idx) THEN Ok(out, idx)
    ELSE Then(scan_chars("^", text, idx), LAMBDA e :
         Then(scan_primary(text, e.idx), LAMBDA primary :
              factor_loop(text, primary.idx,
                          out \o primary.out \o <<OpEl("POW")>>)))

scan_factor(text, cur_idx0) ==
    Then(scan_primary(text, scan_ws(text, cur_idx0)), LAMBDA primary :
         factor_loop(text, primary.idx, primary.out))

\* while check_mul(text, idx) or check_div(text, idx): scan_mul is tried
\* first and only a TypeError would fall back to scan_div; scan_mul raises
\* GBasicSyntaxError, which leaves the function
term_loop(text, idx, out) ==
    IF ~(check_chars("*", text, idx) \/ check_chars("/", text, idx))
    THEN Ok(out, idx)
    ELSE Then(scan_chars("*", text, idx), LAMBDA op :
         Then(scan_factor(text, op.idx), LAMBDA factor :
              term_loop(text, factor.idx,
                        out \o factor.out \o <<OpEl(MathOps[op.out[1].s])>>)))

scan_term(text, cur_idx0) ==
    Then(scan_factor(text, scan_ws(text, cur_idx0)), LAMBDA factor :
         term_loop(text, factor.idx, factor.out))

\* while check_add(text, idx) or check_sub(text, idx): as in term_loop,
\* scan_add is tried first and its GBasicSyntaxError is not caught
expression_loop(text, idx, out) ==
    IF ~(check_chars("+", text, idx) \/ check_chars("-", text, idx))
    THEN Ok(out, idx)
    ELSE Then(scan_chars("+", text, idx), LAMBDA op :
         Then(scan_term(text, op.idx), LAMBDA term :
              expression_loop(text, term.idx,
                              out \o term.out
                                  \o <<OpEl(MathOps[op.out[1].s])>>)))

scan_expression(text, cur_idx0) ==
    Let(scan_ws(text, cur_idx0), LAMBDA cur_idx :
    \* Unary +/-
    Let(IF check_chars("+", text, cur_idx) THEN "+"
        ELSE IF check_chars("-", text, cur_idx) THEN "-"
        ELSE "", LAMBDA op :
    Then(scan_term(text, IF op = "" THEN cur_idx
                         ELSE scan_chars(op, text, cur_idx).idx), LAMBDA term :
         expression_loop(text, term.idx,
             term.out \o (IF op = "-" THEN <<OpEl("NEG")>> ELSE <<>>)))))

\* ------------------------------------------------------------------------
\* Statement compiler
\* ------------------------------------------------------------------------
scan_eof(text, idx0) ==
    Let(scan_ws(text, idx0), LAMBDA idx :
        IF idx >= Len(text) THEN Ok(<<>>, idx)
        ELSE Err(idx, "End of line expected"))

scan_let(text, idx0) ==
    Then(scan_variable(text, scan_ws(text, idx0)), LAMBDA var :
    Then(scan_chars("=", text, var.idx), LAMBDA eq :
         IF var.out[1].t = "numvar"
         THEN Then(scan_expression(text, eq.idx), LAMBDA expression :
              Then(scan_eof(text, expression.idx), LAMBDA eof :
                   Ok(var.out \o expression.out \o <<OpEl("LETNUM")>>,
                      expression.idx)))
         ELSE Then(scan_string(text, eq.idx), LAMBDA outstr :
              Then(scan_eof(text, outstr.idx), LAMBDA eof :
                   Ok(var.out \o outstr.out \o <<OpEl("LETSTR")>>,
                      outstr.idx)))))

\* scan_print.scan_next: try a string first, then an expression
scan_next(text, idx) ==
    Let(scan_string(text, idx), LAMBDA item :
        IF item.ok THEN item ELSE scan_expression(text, idx))

\* while check_comma(text, idx): ...; the result is the elements of the
\* items, then the number of items scanned
RECURSIVE print_loop(_, _, _, _)
print_loop(text, idx, out, items) ==
    IF ~check_chars(",", text, idx) THEN Ok(out \o <<IntEl(items)>>, idx)
    ELSE Then(scan_chars(",", text, idx), LAMBDA comma :
         Then(scan_next(text, comma.idx), LAMBDA item :
              print_loop(text, item.idx, out \o item.out, items + 1)))

scan_print(text, idx0) ==
    Then(scan_next(text, scan_ws(text, idx0)), LAMBDA first :
    Then(print_loop(text, first.idx, first.out, 1), LAMBDA all :
    Let(check_chars(";", text, all.idx), LAMBDA semi :
    Let(IF semi THEN scan_chars(";", text, all.idx).idx ELSE all.idx,
        LAMBDA idx :
    Then(scan_eof(text, idx), LAMBDA eof :
         Ok(all.out \o <<OpEl(IF semi THEN "PRN" ELSE "PRINT")>>, idx))))))

scan_goto(text, idx0) ==
    Then(scan_lineno(text, scan_ws(text, idx0)), LAMBDA lineno :
    Then(scan_eof(text, lineno.idx), LAMBDA eof :
         Ok(lineno.out \o <<OpEl("GOTO")>>, lineno.idx)))

scan_end(text, idx0) ==
    Let(scan_ws(text, idx0), LAMBDA idx :
    Then(scan_eof(text, idx), LAMBDA eof : Ok(<<OpEl("END")>>, idx)))

scan_line(text, idx0) ==
    Then(scan_keyword(text, scan_ws(text, idx0)), LAMBDA keyword :
    Let(keyword.out[1].s, LAMBDA kw :
        CASE kw = "LET" -> scan_let(text, keyword.idx)
          [] kw = "PRINT" -> scan_print(text, keyword.idx)
          [] kw = "GOTO" -> scan_goto(text, keyword.idx)
          [] kw = "END" -> scan_end(text, keyword.idx)
          [] OTHER -> Err(keyword.idx, kw \o " not yet implemented")))

\* str.strip()
strip(chars) ==
    Let({i \in 1..Len(chars) : ~IsSpace(chars[i])}, LAMBDA keep :
        IF keep = {} THEN <<>>
        ELSE SubSeq(chars, Min(keep),
                    CHOOSE m \in keep : \A o \in keep : o <= m))

\* Machine._process_line: Line(lineno, text, compiled), or the syntax error
\* raised (with the line number scanned before it, 0 if none was)
process_line(text) ==
    Let(scan_lineno(text, 0), LAMBDA lineno :
        IF ~lineno.ok THEN lineno @@ [lineno |-> 0, text |-> <<>>]
        ELSE Let(scan_line(text, lineno.idx), LAMBDA compiled :
                 IF ~compiled.ok
                 THEN compiled @@ [lineno |-> lineno.out[1].n, text |-> <<>>]
                 ELSE [ok |-> TRUE, lineno |-> lineno.out[1].n,
                       text |-> strip(Slice(text, lineno.idx, Len(text))),
                       out |-> compiled.out, idx |-> compiled.idx,
                       msg |-> ""]))

\* ------------------------------------------------------------------------
\* Values at run time
\* ------------------------------------------------------------------------
NoneEl      == [t |-> "none", n |-> 0, s |-> ""]
\* a tuple of n items that is not a 2-item variable reference (the result of
\* + or * on reference tuples)
TupleEl(k)  == [t |-> "tuple", n |-> k, s |-> ""]

IsNum(v)    == v.t \in {"int", "float"}
IsTuple(v)  == v.t \in {"numvar", "strvar", "op", "tuple"}
TupleLen(v) == IF v.t = "tuple" THEN v.n ELSE 2

NoExc == [type |-> "", idx |-> "", message |-> ""]
Exc(type, idx) == [type |-> type, idx |-> idx, message |-> "None"]

Val(v)      == [exc |-> NoExc, val |-> v]
Fail(type, idx) == [exc |-> Exc(type, idx), val |-> NoneEl]

RECURSIVE Power(_, _)
Power(b, e) == IF e = 0 THEN 1 ELSE b * Power(b, e - 1)

RECURSIVE StrTimes(_, _)
StrTimes(str, k) == IF k <= 0 THEN "" ELSE str \o StrTimes(str, k - 1)

\* b + a
py_add(b, a) ==
    IF b.t = "int" /\ a.t = "int" THEN Val(IntEl(b.n + a.n))
    ELSE IF IsNum(b) /\ IsNum(a) THEN Val(FloatEl("?"))
    ELSE IF b.t = "str" /\ a.t = "str" THEN Val(StrEl(b.s \o a.s))
    ELSE IF IsTuple(b) /\ IsTuple(a) THEN Val(TupleEl(TupleLen(b) + TupleLen(a)))
    ELSE Fail("TypeError", "+")

\* b - a
py_sub(b, a) ==
    IF b.t = "int" /\ a.t = "int" THEN Val(IntEl(b.n - a.n))
    ELSE IF IsNum(b) /\ IsNum(a) THEN Val(FloatEl("?"))
    ELSE Fail("TypeError", "-")

\* b * a
py_mul(b, a) ==
    IF b.t = "int" /\ a.t = "int" THEN Val(IntEl(b.n * a.n))
    ELSE IF IsNum(b) /\ IsNum(a) THEN Val(FloatEl("?"))
    ELSE IF b.t = "str" /\ a.t = "int" THEN Val(StrEl(StrTimes(b.s, a.n)))
    ELSE IF b.t = "int" /\ a.t = "str" THEN Val(StrEl(StrTimes(a.s, b.n)))
    ELSE IF IsTuple(b) /\ a.t = "int"
    THEN Val(TupleEl(IF a.n > 0 THEN TupleLen(b) * a.n ELSE 0))
    ELSE IF b.t = "int" /\ IsTuple(a)
    THEN Val(TupleEl(IF b.n > 0 THEN TupleLen(a) * b.n ELSE 0))
    ELSE Fail("TypeError", "*")

\* b / a: true division, the quotient of two ints is a float
py_div(b, a) ==
    IF IsNum(b) /\ a.t = "int" /\ a.n = 0
    THEN Fail("ZeroDivisionError", "division by zero")
    ELSE IF IsNum(b) /\ IsNum(a) THEN Val(FloatEl("?"))
    ELSE Fail("TypeError", "/")

\* b ** a
py_pow(b, a) ==
    IF b.t = "int" /\ a.t = "int"
    THEN IF a.n >= 0 THEN Val(IntEl(Power(b.n, a.n)))
         ELSE IF b.n = 0
         THEN Fail("ZeroDivisionError",
                   "0.0 cannot be raised to a negative power")
         ELSE Val(FloatEl("?"))
    ELSE IF IsNum(b) /\ IsNum(a) THEN Val(FloatEl("?"))
    ELSE Fail("TypeError", "**")

\* -a
py_neg(a) ==
    IF a.t = "int" THEN Val(IntEl(0 - a.n))
    ELSE IF a.t = "float" THEN Val(FloatEl("?"))
    ELSE Fail("TypeError", "unary -")

\* str(v), as print() renders an item
py_str(v) ==
    CASE v.t = "int" -> ToString(v.n)
      [] v.t = "str" -> v.s
      [] v.t = "float" -> "float(" \o v.s \o ")"
      [] v.t = "numvar" -> "(<Element.numvar: 5>, '" \o v.s \o "')"
      [] v.t = "strvar" -> "(<Element.strvar: 4>, '" \o v.s \o "')"
      [] OTHER -> "(...)"

\* sep.join(str(item) for item in items)
RECURSIVE join(_, _)
join(items, sep) ==
    IF items = <<>> THEN ""
    ELSE IF Len(items) = 1 THEN py_str(items[1])
    ELSE py_str(items[1]) \o sep \o join(Tail(items), sep)

\* ------------------------------------------------------------------------
\* The machine.  An operation takes the machine as a record vm of its
\* fields, with the text written to stdout (out, one entry per print call) and
\* the exception in flight (exc), and returns the machine it leaves.
\* ------------------------------------------------------------------------
Write(vm, by, text) ==
    [vm EXCEPT !.out = Append(@, [by |-> by, text |-> text])]

Raise(vm, exc) == [vm EXCEPT !.exc = exc]

\* self.stack.pop()
stack_pop(vm) ==
    IF vm.stack = <<>>
    THEN [vm |-> Raise(vm, Exc("IndexError", "pop from an empty deque")),
          val |-> NoneEl]
    ELSE [vm |-> [vm EXCEPT !.stack = SubSeq(@, 1, Len(@) - 1)],
          val |-> vm.stack[Len(vm.stack)]]

\* Machine.resolve
resolve(vm, element) ==
    IF ~IsTuple(element) THEN Val(element)
    ELSE IF element.t = "tuple" /\ element.n = 0
    THEN Fail("IndexError", "tuple index out of range")
    ELSE IF element.t = "numvar"
    THEN IF element.s \in DOMAIN vm.vars THEN Val(vm.vars[element.s])
         ELSE Fail("KeyError", element.s)
    ELSE Val(element)

\* Machine.pop_and_resolve
pop_and_resolve(vm) ==
    Let(stack_pop(vm), LAMBDA p :
        IF p.vm.exc # NoExc THEN p
        ELSE Let(resolve(p.vm, p.val), LAMBDA r :
                 [vm |-> Raise(p.vm, r.exc), val |-> r.val]))

\* p.vm if the pop p raised, else K(p)
Popped(p, K(_)) == Let(p, LAMBDA v : IF v.vm.exc # NoExc THEN v.vm ELSE K(v))

\* Machine.goto without the membership test: an absent target is ignored
machine_goto_unchecked(vm, lineno) ==
    Let({i \in 1..Len(vm.program) : vm.program[i].lineno = lineno},
        LAMBDA found :
        IF found = {} THEN vm ELSE [vm EXCEPT !.pidx = Min(found) - 1])

\* Machine.goto
machine_goto(vm, lineno) ==
    IF lineno \notin vm.linenos
    THEN Raise(vm, Exc("GBasicRuntimeError",
                       "Cannot GOTO line number " \o ToString(lineno)
                           \o ": line number does not exist"))
    ELSE Let({i \in 1..Len(vm.program) : vm.program[i].lineno = lineno},
             LAMBDA found :
             IF found = {} THEN vm ELSE [vm EXCEPT !.pidx = Min(found) - 1])

\* a = pop_and_resolve(); b = pop_and_resolve(); stack.append(b <op> a)
binary(vm, op) ==
    Popped(pop_and_resolve(vm), LAMBDA a :
    Popped(pop_and_resolve(a.vm), LAMBDA b :
    Let(CASE op = "ADD" -> py_add(b.val, a.val)
          [] op = "SUB" -> py_sub(b.val, a.val)
          [] op = "MUL" -> py_mul(b.val, a.val)
          [] op = "DIV" -> py_div(b.val, a.val)
          [] op = "POW" -> py_pow(b.val, a.val), LAMBDA r :
        IF r.exc # NoExc THEN Raise(b.vm, r.exc)
        ELSE [b.vm EXCEPT !.stack = Append(@, r.val)])))

add(vm) == binary(vm, "ADD")
sub(vm) == binary(vm, "SUB")
mul(vm) == binary(vm, "MUL")
div(vm) == binary(vm, "DIV")
pow(vm) == binary(vm, "POW")

neg(vm) ==
    Popped(pop_and_resolve(vm), LAMBDA a :
    Let(py_neg(a.val), LAMBDA r :
        IF r.exc # NoExc THEN Raise(a.vm, r.exc)
        ELSE [a.vm EXCEPT !.stack = Append(@, r.val)]))

\* letnum that reads the variable reference without popping it
letnum_peek(vm) ==
    Popped(pop_and_resolve(vm), LAMBDA num :
    Popped(stack_pop(num.vm), LAMBDA varname :
        [num.vm EXCEPT !.vars =
            [k \in DOMAIN @ \cup {varname.val.s} |->
                IF k = varname.val.s THEN num.val ELSE @[k]]]))

\* vm.vars[varname[1]] = num
letnum(vm) ==
    Popped(pop_and_resolve(vm), LAMBDA num :
    Popped(stack_pop(num.vm), LAMBDA varname :
        IF varname.val.t \notin {"numvar", "strvar"}
        THEN Raise(varname.vm, Exc("TypeError", "not subscriptable"))
        ELSE [varname.vm EXCEPT !.vars =
                 [k \in DOMAIN @ \cup {varname.val.s} |->
                     IF k = varname.val.s THEN num.val ELSE @[k]]]))

\* endop that leaves the halt flag alone
endop_nohalt(vm) == vm

endop(vm) == [vm EXCEPT !.halt = TRUE]

goto(vm) ==
    Popped(stack_pop(vm), LAMBDA lineno :
        machine_goto(lineno.vm, lineno.val.n))

\* items = [vm.pop_and_resolve() for _ in range(item_count)]
RECURSIVE pop_items(_, _, _)
pop_items(vm, item_count, items) ==
    IF item_count <= 0 THEN [vm |-> vm, items |-> items]
    ELSE Let(pop_and_resolve(vm), LAMBDA p :
             IF p.vm.exc # NoExc THEN [vm |-> p.vm, items |-> items]
             ELSE pop_items(p.vm, item_count - 1, Append(items, p.val)))

prn(vm) ==
    Popped(stack_pop(vm), LAMBDA item_count :
        IF item_count.val.t # "int"
        THEN Raise(item_count.vm, Exc("TypeError", "range"))
        ELSE Popped(pop_items(item_count.vm, item_count.val.n, <<>>),
                    LAMBDA p : Write(p.vm, "prn", join(p.items, " "))))

printop(vm) ==
    Let(prn(vm), LAMBDA p :
        IF p.exc # NoExc THEN p ELSE Write(p, "printop", "\n"))

\* the dispatch table of execute: Op.LETSTR has no entry
operations == {"ADD", "SUB", "MUL", "DIV", "POW", "NEG", "LETNUM", "END",
               "GOTO", "PRN", "PRINT"}

execute(vm, op) ==
    IF op \notin operations THEN Raise(vm, Exc("KeyError", "Op." \o op))
    ELSE CASE op = "ADD" -> add(vm)
           [] op = "SUB" -> sub(vm)
           [] op = "MUL" -> mul(vm)
           [] op = "DIV" -> div(vm)
           [] op = "POW" -> pow(vm)
           [] op = "NEG" -> neg(vm)
           [] op = "LETNUM" -> letnum(vm)
           [] op = "END" -> endop(vm)
           [] op = "GOTO" -> goto(vm)
           [] op = "PRN" -> prn(vm)
           [] op = "PRINT" -> printop(vm)

\* the body of "for element in line.compiled": one element
run_element(vm, element) ==
    IF element.t = "op"
    THEN Let(execute(vm, element.s), LAMBDA e :
             IF e.exc # NoExc THEN e
             ELSE Write(Write(e, "run", "Op." \o element.s), "run", "stack"))
    ELSE Write([vm EXCEPT !.stack = Append(@, element)], "run", "stack")

\* for element in line.compiled: ...   (left when an exception is raised)
RECURSIVE run_elements(_, _)
run_elements(vm, compiled) ==
    IF compiled = <<>> \/ vm.exc # NoExc THEN vm
    ELSE run_elements(run_element(vm, Head(compiled)), Tail(compiled))

\* an iteration that never adds one to pidx
run_iteration_stay(vm) ==
    run_elements(vm, vm.program[vm.pidx + 1].compiled)

\* one iteration of the while loop of Machine.run
run_iteration(vm) ==
    Let(run_elements(vm, vm.program[vm.pidx + 1].compiled), LAMBDA after :
        IF after.exc # NoExc THEN after
        ELSE IF vm.pidx = after.pidx THEN [after EXCEPT !.pidx = @ + 1]
        ELSE after)

\* ------------------------------------------------------------------------
\* Program store
\* ------------------------------------------------------------------------
Line(lineno, text, compiled) ==
    [lineno |-> lineno, text |-> text, compiled |-> compiled]

\* list.sort(key=lambda line: line.lineno): a stable sort
RECURSIVE sort(_)
sort(lines) ==
    IF Len(lines) <= 1 THEN lines
    ELSE Let(sort(SubSeq(lines, 1, Len(lines) - 1)), LAMBDA front :
         Let(Cardinality({i \in 1..Len(front) :
                             front[i].lineno <= lines[Len(lines)].lineno}),
             LAMBDA k : SubSeq(front, 1, k) \o <<lines[Len(lines)]>>
                            \o SubSeq(front, k + 1, Len(front))))

\* [l for l in self.program if l.lineno != lineno]
RECURSIVE without(_, _)
without(lines, lineno) ==
    IF lines = <<>> THEN <<>>
    ELSE IF Head(lines).lineno # lineno
         THEN <<Head(lines)>> \o without(Tail(lines), lineno)
    ELSE without(Tail(lines), lineno)

\* delete_line that leaves the number in linenos
delete_line_program_only(vm, lineno) ==
    IF lineno \notin vm.linenos
    THEN Raise(vm, Exc("KeyError", ToString(lineno)))
    ELSE [vm EXCEPT !.program = without(@, lineno)]

\* Machine.delete_line
delete_line(vm, lineno) ==
    IF lineno \notin vm.linenos
    THEN Raise(vm, Exc("KeyError", ToString(lineno)))
    ELSE [vm EXCEPT !.linenos = @ \ {lineno},
                    !.program = without(@, lineno)]

\* add_line that does not remove the line it replaces
add_processed_keep(vm, line) ==
    IF ~line.ok
    THEN Raise(vm, [type |-> "GBasicSyntaxError", idx |-> ToString(line.idx),
                    message |-> line.msg])
    ELSE [vm EXCEPT !.linenos = @ \cup {line.lineno},
                    !.program = sort(Append(@, Line(line.lineno, line.text,
                                                    line.out)))]

\* add_line that removes the line it replaces before the text is compiled
add_processed_early(vm, line) ==
    Let(IF line.lineno \in vm.linenos
        THEN delete_line(vm, line.lineno) ELSE vm, LAMBDA d :
        IF ~line.ok
        THEN Raise(d, [type |-> "GBasicSyntaxError", idx |-> ToString(line.idx),
                       message |-> line.msg])
        ELSE [d EXCEPT !.linenos = @ \cup {line.lineno},
                       !.program = sort(Append(@, Line(line.lineno, line.text,
                                                       line.out)))])

\* Machine.add_line, given the result of _process_line(text)
add_processed(vm, line) ==
    IF ~line.ok
    THEN Raise(vm, [type |-> "GBasicSyntaxError", idx |-> ToString(line.idx),
                    message |-> line.msg])
    ELSE Let(IF line.lineno \in vm.linenos
             THEN delete_line(vm, line.lineno) ELSE vm, LAMBDA d :
             [d EXCEPT !.linenos = @ \cup {line.lineno},
                       !.program = sort(Append(@, Line(line.lineno, line.text,
                                                       line.out)))])

\* ------------------------------------------------------------------------
\* Bounds and the texts given to add_line
\* ------------------------------------------------------------------------
MaxCalls == 5     \* calls of add_line, delete_line and run
MaxRuns  == 2     \* calls of run
MaxSteps == 5     \* lines executed by one run

t10LetA == <<"1", "0", " ", "L", "E", "T", " ", "A", " ", "=", " ", "1">>  \* 10 LET A = 1
t10GotoSelf == <<"1", "0", " ", "G", "O", "T", "O", " ", "1", "0">>  \* 10 GOTO 10
t10GotoFwd == <<"1", "0", " ", "G", "O", "T", "O", " ", "3", "0">>  \* 10 GOTO 30
t10LetStr == <<"1", "0", " ", "L", "E", "T", " ", "A", "$", " ", "=", " ", "\"", "X", "\"">>  \* 10 LET A$ = "X"
t20Print == <<"2", "0", " ", "P", "R", "I", "N", "T", " ", "\"", "X", "\"", ",", " ", "A">>  \* 20 PRINT "X", A
t20Prn == <<"2", "0", " ", "P", "R", "I", "N", "T", " ", "\"", "X", "\"", ",", " ", "A", ";">>  \* 20 PRINT "X", A;
t20End == <<"2", "0", " ", "E", "N", "D">>  \* 20 END
t20LetB == <<"2", "0", " ", "L", "E", "T", " ", "B", " ", "=", " ", "A", " ", "+", " ", "1">>  \* 20 LET B = A + 1
t20GotoSelf == <<"2", "0", " ", "G", "O", "T", "O", " ", "2", "0">>  \* 20 GOTO 20
t20GotoBack == <<"2", "0", " ", "G", "O", "T", "O", " ", "1", "0">>  \* 20 GOTO 10
t30LetB == <<"3", "0", " ", "L", "E", "T", " ", "B", " ", "=", " ", "2">>  \* 30 LET B = 2
t30GotoMissing == <<"3", "0", " ", "G", "O", "T", "O", " ", "4", "0">>  \* 30 GOTO 40
t30End == <<"3", "0", " ", "E", "N", "D">>  \* 30 END
t30PrintStr == <<"3", "0", " ", "P", "R", "I", "N", "T", " ", "A", "$">>  \* 30 PRINT A$
tBadSub == <<"1", "0", " ", "L", "E", "T", " ", "B", " ", "=", " ", "2", " ", "-", " ", "1">>  \* 10 LET B = 2 - 1
tBadRem == <<"2", "0", " ", "R", "E", "M">>  \* 20 REM
tBadKeyword == <<"3", "0">>  \* 30
tBadLineno == <<"E", "N", "D">>  \* END

\* texts add_line accepts
GoodTexts == {t10LetA, t10GotoSelf, t10GotoFwd, t10LetStr,
              t20Print, t20Prn, t20End, t20LetB, t20GotoSelf, t20GotoBack,
              t30LetB, t30GotoMissing, t30End, t30PrintStr}

\* texts add_line rejects: a malformed statement body, an unimplemented
\* keyword, no keyword, no line number
BadTexts == {tBadSub, tBadRem, tBadKeyword, tBadLineno}

Texts == GoodTexts \cup BadTexts

\* the line numbers given to delete_line
DeleteNos == {10, 20, 30}

\* _process_line of every text, computed once
Processed == [text \in Texts |-> process_line(text)]

add_line(vm, text) == add_processed(vm, Processed[text])

\* ------------------------------------------------------------------------
\* State
\* ------------------------------------------------------------------------
VARIABLES
    stack,      \* Machine.stack, the top is the last item
    program,    \* Machine.program, a list of Lines
    linenos,    \* Machine.linenos
    vm_vars,    \* Machine.vars
    pidx,       \* Machine.pidx
    halt,       \* Machine.halt
    pc,         \* "ready", or where the last call, a run, is: "running",
                \* "returned", "raised"
    out,        \* what the last call, a run, wrote to stdout
    exc,        \* the exception the last call raised, NoExc if none
    last,       \* the last call: [op, text, lineno, present], present: the
                \* line number of the call was in linenos when it was made
    trace,      \* the line numbers of the lines the last call, a run, executed
    start,      \* the stack and vars when the last call, a run, began
    calls,      \* the number of calls made
    runs        \* the number of calls of run

machine == <<stack, program, linenos, vm_vars, pidx, halt>>
vars == <<stack, program, linenos, vm_vars, pidx, halt, pc, out, exc, last,
          trace, start, calls, runs>>

\* the machine as the record the operations take
VM == [stack |-> stack, program |-> program, linenos |-> linenos,
       vars |-> vm_vars, pidx |-> pidx, halt |-> halt, out |-> out,
       exc |-> NoExc]

\* the machine becomes vm
Becomes(vm) ==
    /\ stack' = vm.stack
    /\ program' = vm.program
    /\ linenos' = vm.linenos
    /\ vm_vars' = vm.vars
    /\ pidx' = vm.pidx
    /\ halt' = vm.halt
    /\ out' = vm.out
    /\ exc' = vm.exc

Call(op, text, lineno) ==
    [op |-> op, text |-> text, lineno |-> lineno, present |-> lineno \in linenos]

NoStart == [stack |-> <<>>, vars |-> <<>>]

\* Machine.__init__
Init ==
    /\ stack = <<>>
    /\ program = <<>>
    /\ linenos = {}
    /\ vm_vars = <<>>
    /\ pidx = 0
    /\ halt = FALSE
    /\ pc = "ready"
    /\ out = <<>>
    /\ exc = NoExc
    /\ last = Call("", <<>>, 0)
    /\ trace = <<>>
    /\ start = NoStart
    /\ calls = 0
    /\ runs = 0

\* ------------------------------------------------------------------------
\* Actions
\* ------------------------------------------------------------------------
AddLine(text) ==
    /\ pc # "running"
    /\ calls < MaxCalls
    /\ Becomes([add_line(VM, text) EXCEPT !.out = <<>>])
    /\ last' = Call("add_line", text, Processed[text].lineno)
    /\ calls' = calls + 1
    /\ pc' = "ready"
    /\ trace' = <<>>
    /\ start' = NoStart
    /\ UNCHANGED runs

DeleteLine(lineno) ==
    /\ pc # "running"
    /\ calls < MaxCalls
    /\ Becomes([delete_line(VM, lineno) EXCEPT !.out = <<>>])
    /\ last' = Call("delete_line", <<>>, lineno)
    /\ calls' = calls + 1
    /\ pc' = "ready"
    /\ trace' = <<>>
    /\ start' = NoStart
    /\ UNCHANGED runs

\* run() that starts where the previous run left pidx and halt
RunBeginNoReset ==
    /\ pc # "running"
    /\ calls < MaxCalls
    /\ runs < MaxRuns
    /\ pc' = "running"
    /\ out' = <<>>
    /\ exc' = NoExc
    /\ last' = Call("run", <<>>, 0)
    /\ trace' = <<>>
    /\ start' = [stack |-> stack, vars |-> vm_vars]
    /\ calls' = calls + 1
    /\ runs' = runs + 1
    /\ UNCHANGED <<stack, program, linenos, vm_vars, pidx, halt>>

\* run(): self.pidx = 0; self.halt = False
RunBegin ==
    /\ pc # "running"
    /\ calls < MaxCalls
    /\ runs < MaxRuns
    /\ pidx' = 0
    /\ halt' = FALSE
    /\ pc' = "running"
    /\ out' = <<>>
    /\ exc' = NoExc
    /\ last' = Call("run", <<>>, 0)
    /\ trace' = <<>>
    /\ start' = [stack |-> stack, vars |-> vm_vars]
    /\ calls' = calls + 1
    /\ runs' = runs + 1
    /\ UNCHANGED <<stack, program, linenos, vm_vars>>

\* run(): one iteration of "while self.pidx < len(self.program) and not
\* self.halt"
RunLine ==
    /\ pc = "running"
    /\ pidx < Len(program) /\ ~halt
    /\ Len(trace) < MaxSteps
    /\ Becomes(run_iteration(VM))
    /\ pc' = IF exc' # NoExc THEN "raised" ELSE "running"
    /\ trace' = Append(trace, program[pidx + 1].lineno)
    /\ UNCHANGED <<last, start, calls, runs>>

\* run(): the loop is left; print(self.vars); print(self.stack)
RunEnd ==
    /\ pc = "running"
    /\ ~(pidx < Len(program) /\ ~halt)
    /\ Becomes(Write(Write(VM, "run", "vars"), "run", "stack"))
    /\ pc' = "returned"
    /\ UNCHANGED <<last, trace, start, calls, runs>>

Next ==
    \/ \E text \in Texts : AddLine(text)
    \/ \E lineno \in DeleteNos : DeleteLine(lineno)
    \/ RunBegin
    \/ RunLine
    \/ RunEnd

Spec == Init /\ [][Next]_vars

\* run() is sequential code: once called, its loop goes on to the next
\* iteration, and past the loop to its end, without waiting for anything
LiveSpec == Spec /\ WF_vars(RunLine) /\ WF_vars(RunEnd)

TypeOK ==
    /\ pc \in {"ready", "running", "returned", "raised"}
    /\ pidx \in Nat
    /\ halt \in BOOLEAN

\* ------------------------------------------------------------------------
\* Properties
\* ------------------------------------------------------------------------
\* this step is one iteration of the loop of run: it executes Current
Executes == pc = "running" /\ Len(trace') = Len(trace) + 1
Current == program[pidx + 1]

\* the index (from 0) of the line numbered n in lines
IndexOf(lines, n) == Min({i \in 1..Len(lines) : lines[i].lineno = n}) - 1

\* the text the PRINT statements wrote in out after its first k entries
RECURSIVE Printed(_, _)
Printed(o, k) ==
    IF k >= Len(o) THEN ""
    ELSE (IF o[k + 1].by \in {"prn", "printop"} THEN o[k + 1].text ELSE "")
             \o Printed(o, k + 1)

RECURSIVE Flatten(_)
Flatten(groups) ==
    IF groups = <<>> THEN <<>> ELSE Head(groups) \o Flatten(Tail(groups))

Reverse(seq) == [i \in 1..Len(seq) |-> seq[Len(seq) + 1 - i]]

\* the PRINT statements of Texts: their items in declaration order, each
\* with its elements in postfix order, and the end of the printed text
PrintCases ==
    {[text |-> t20Print, items |-> <<<<StrEl("X")>>, <<NumVar("A")>>>>,
      marker |-> "PRINT", end |-> "\n"],
     [text |-> t20Prn, items |-> <<<<StrEl("X")>>, <<NumVar("A")>>>>,
      marker |-> "PRN", end |-> ""]}

\* the value of a one-element item under the variable mapping
ItemValue(item) ==
    IF item[1].t = "numvar" THEN vm_vars[item[1].s] ELSE item[1]

\* C1: a PRINT statement writes the values of its items in declaration
\* order, separated by single spaces, then a line break (none after ';')
C1_PrintStep ==
    \A c \in PrintCases :
        (Executes /\ Current.text = Processed[c.text].text /\ exc' = NoExc)
            => Printed(out', Len(out))
                   = join([i \in 1..Len(c.items) |-> ItemValue(c.items[i])],
                          " ") \o c.end
C1_PrintInDeclarationOrder == [][C1_PrintStep]_vars

\* C2: an executed GOTO n with line n present makes line n the next line
\* executed, wherever n is; a line without GOTO advances pidx by one
C2_GotoStep ==
    (Executes /\ exc' = NoExc)
        => IF OpEl("GOTO") \in {Current.compiled[i] :
                                   i \in 1..Len(Current.compiled)}
           THEN pidx' = IndexOf(program, Current.compiled[1].n)
           ELSE pidx' = pidx + 1
C2_GotoRepositions == [][C2_GotoStep]_vars

\* C3: once END is executed the halt flag is true and the run executes no
\* other line: variables, stack and trace stay as they are
C3_EndStep ==
    /\ (Executes /\ Current.compiled = <<OpEl("END")>>) => halt'
    /\ (pc = "running" /\ halt)
           => /\ UNCHANGED <<vm_vars, stack, trace, pidx, halt>>
              /\ pc' = "returned"
C3_EndHalts == [][C3_EndStep]_vars

\* a run that END stopped before the last line, with A bound and B not
C3_Witness ==
    /\ pc = "returned" /\ halt
    /\ Len(program) = 3 /\ trace = <<10, 20>>
    /\ program[3].compiled[1] = NumVar("B")
    /\ "A" \in DOMAIN vm_vars /\ "B" \notin DOMAIN vm_vars

\* the LET statements of Texts that the grammar of numeric expressions
\* admits, with the variable and the value of the expression
LetCases ==
    {[text |-> t10LetA, var |-> "A", needs |-> {}, value |-> 1],
     [text |-> t20LetB, var |-> "B", needs |-> {"A"},
      value |-> IF "A" \in DOMAIN vm_vars /\ vm_vars["A"].t = "int"
                THEN vm_vars["A"].n + 1 ELSE 0],
     [text |-> t30LetB, var |-> "B", needs |-> {}, value |-> 2],
     [text |-> tBadSub, var |-> "B", needs |-> {}, value |-> 2 - 1]}

\* C4: a well-formed LET <numvar> = <expr> is accepted by add_line, and run
\* binds the variable to the value of the expression
C4_LetStep ==
    \A c \in LetCases :
        /\ (last'.op = "add_line" /\ last'.text = c.text) => exc' = NoExc
        /\ (Executes /\ Current.lineno = Processed[c.text].lineno
              /\ Current.text = strip(SubSeq(c.text, 3, Len(c.text)))
              /\ \A v \in c.needs : v \in DOMAIN vm_vars /\ vm_vars[v].t = "int")
               => /\ exc' = NoExc
                  /\ c.var \in DOMAIN vm_vars'
                  /\ vm_vars'[c.var] = IntEl(c.value)
C4_LetBindsValue == [][C4_LetStep]_vars

\* C5: a GOTO to an absent line raises a runtime error that names the line
\* number; pidx and the variables stay as they are and no line is executed
\* after it
C5_GotoMissingStep ==
    /\ (Executes /\ Len(Current.compiled) = 2
          /\ Current.compiled[2] = OpEl("GOTO")
          /\ Current.compiled[1].n \notin linenos)
           => /\ pc' = "raised"
              /\ exc' = Exc("GBasicRuntimeError",
                            "Cannot GOTO line number "
                                \o ToString(Current.compiled[1].n)
                                \o ": line number does not exist")
              /\ pidx' = pidx
              /\ vm_vars' = vm_vars
    /\ pc = "raised" => Len(trace') <= Len(trace)
C5_GotoMissingRaises == [][C5_GotoMissingStep]_vars

\* a run that bound a variable and then raised on a GOTO
C5_Witness ==
    /\ pc = "raised" /\ exc.type = "GBasicRuntimeError"
    /\ Len(trace) >= 2
    /\ DOMAIN vm_vars # DOMAIN start.vars

\* C6: add_line of a line number that is present replaces the line: one line
\* of that number, compiled from the new text, the same number of lines, the
\* other lines unchanged, as delete_line followed by add_line would leave it
C6_ReplaceStep ==
    (last'.op = "add_line" /\ calls' = calls + 1 /\ exc' = NoExc
       /\ last'.lineno \in linenos)
        => LET k == last'.lineno
               at == {i \in 1..Len(program') : program'[i].lineno = k}
               two == add_line([delete_line(VM, k) EXCEPT !.out = <<>>],
                               last'.text)
           IN  /\ Cardinality(at) = 1
               /\ \A i \in at :
                     program'[i].compiled = Processed[last'.text].out
               /\ Len(program') = Len(program)
               /\ without(program', k) = without(program, k)
               /\ linenos' = linenos
               /\ program' = two.program /\ linenos' = two.linenos
C6_AddLineReplaces == [][C6_ReplaceStep]_vars

\* a line was replaced by a line with another compiled sequence
C6_Witness ==
    /\ last.op = "add_line" /\ last.present /\ exc = NoExc
    /\ Len(program) >= 2

\* C7: an add_line that fails with a syntax error leaves the machine as it
\* was, also when the line number of the text is present
C7_FailStep ==
    (last'.op = "add_line" /\ calls' = calls + 1
       /\ exc'.type = "GBasicSyntaxError")
        => UNCHANGED machine
C7_FailedAddLineChangesNothing == [][C7_FailStep]_vars

\* a failed add_line of a present line number, after a run
C7_Witness ==
    /\ last.op = "add_line" /\ exc.type = "GBasicSyntaxError"
    /\ last.present
    /\ pidx > 0 /\ vm_vars # <<>>

\* C8: executing <string variable, string, LETSTR> binds the variable to the
\* string and raises nothing; every opcode has a handler
C8_LetStrStep ==
    (Executes /\ Len(Current.compiled) = 3
       /\ Current.compiled[3] = OpEl("LETSTR"))
        => /\ exc' = NoExc
           /\ Current.compiled[1].s \in DOMAIN vm_vars'
           /\ vm_vars'[Current.compiled[1].s] = Current.compiled[2]
           /\ stack' = stack
C8_LetStrBinds == [][C8_LetStrStep]_vars

\* C9: a PRINT statement compiles to the elements of its items in reverse
\* item order, the item count, and PRINT (PRN when it ends in ';')
C9_PrintCompiledReversed ==
    \A c \in PrintCases : \A i \in 1..Len(program) :
        program[i].text = Processed[c.text].text
            => program[i].compiled
                   = Flatten(Reverse(c.items))
                         \o <<IntEl(Len(c.items)), OpEl(c.marker)>>

\* C10: at every line boundary of a run and at its normal end the stack is
\* the stack the run began with
C10_StackBalanced ==
    pc \in {"running", "returned"} => stack = start.stack

\* a run that began with a stack a raised run had left, and returned
C10_Witness ==
    /\ pc = "returned" /\ start.stack # <<>>
    /\ Len(trace) >= 2

\* the variable references of a compiled line that its operations pop and
\* resolve: every reference but the target of a LET
Resolved(line) ==
    {line.compiled[i] : i \in {j \in 1..Len(line.compiled) :
        /\ line.compiled[j].t \in {"numvar", "strvar"}
        /\ ~(j = 1 /\ line.compiled[Len(line.compiled)]
                          \in {OpEl("LETNUM"), OpEl("LETSTR")})}}

\* C11: a line that pops a reference, numeric or string, to an unbound
\* variable raises: nothing is bound or printed and no later line is executed
C11_UnboundStep ==
    (Executes /\ \E ref \in Resolved(Current) : ref.s \notin DOMAIN vm_vars)
        => /\ pc' = "raised" /\ exc' # NoExc
           /\ vm_vars' = vm_vars
           /\ Printed(out', Len(out)) = ""
C11_UnboundReferenceRaises == [][C11_UnboundStep]_vars

\* C12: a call of run sets pidx to 0 and halt to false whatever the previous
\* run left, and nothing else: the stack, the variables, the program and
\* linenos are as they were; no step of a run changes program or linenos
C12_RunStep ==
    /\ runs' = runs + 1
           => /\ pidx' = 0 /\ ~halt'
              /\ UNCHANGED <<stack, vm_vars, program, linenos>>
    /\ (pc = "running" \/ pc' = "running") => UNCHANGED <<program, linenos>>
C12_RunResetsCounterAndHalt == [][C12_RunStep]_vars

\* a second run begins with the variables the first run bound before it
\* raised
C12_Witness ==
    /\ runs = 2 /\ pc = "running" /\ trace = <<>>
    /\ pidx = 0 /\ ~halt
    /\ start.vars # <<>> /\ vm_vars = start.vars
    /\ Len(program) >= 2

\* C13: the program is strictly ascending by line number and linenos is the
\* set of the line numbers of the program, after every call; a delete_line
\* that fails changes neither
C13_Sorted ==
    /\ \A i \in 1..(Len(program) - 1) : program[i].lineno < program[i + 1].lineno
    /\ linenos = {program[i].lineno : i \in 1..Len(program)}
C13_FailedDeleteStep ==
    (last'.op = "delete_line" /\ calls' = calls + 1 /\ exc' # NoExc)
        => UNCHANGED <<program, linenos>>
C13_ProgramSortedAndIndexed == []C13_Sorted /\ [][C13_FailedDeleteStep]_vars

\* a delete_line of an absent number failed on a program of lines 10 and 30
C13_Witness ==
    /\ last.op = "delete_line" /\ ~last.present /\ exc.type = "KeyError"
    /\ Len(program) = 2 /\ linenos = {10, 30}

\* no line of the program has a GOTO
NoGoto ==
    \A i \in 1..Len(program) : \A j \in 1..Len(program[i].compiled) :
        program[i].compiled[j] # OpEl("GOTO")

\* C14: a run of a program without GOTO executes lines in strictly ascending
\* order of line number, never decreases pidx, leaves the loop exactly when
\* pidx is past the last line or END has set halt, or raises, and ends
C14_NoGotoStep ==
    (pc = "running" /\ NoGoto)
        => /\ pidx' >= pidx
           /\ Executes
                  => /\ trace = <<>> \/ trace[Len(trace)] < Current.lineno
                     /\ exc' = NoExc => pidx' = pidx + 1
                     /\ pc' = "raised" <=> exc' # NoExc
           /\ pc' = "returned" <=> (pidx >= Len(program) \/ halt)
           /\ (pidx < Len(program) /\ ~halt) => Executes
C14_NoGotoRunTerminates ==
    /\ [][C14_NoGotoStep]_vars
    /\ (pc = "running" /\ NoGoto) ~> (pc \in {"returned", "raised"})

\* a run of three lines without GOTO ended past the last line
C14_Witness ==
    /\ pc = "returned" /\ NoGoto /\ ~halt
    /\ trace = <<10, 20, 30>> /\ pidx = 3

====
